---- MODULE Spec2Model ----
(***************************************************************************)
(* The user CRUD service: four Lambda handlers (create, get, list, update) *)
(* over the data-access module src/src/utils/dynamodb.py and one DynamoDB  *)
(* table keyed by user_id.                                                 *)
(*                                                                         *)
(* Representation.  A Python str is a sequence of one-character strings.   *)
(* A JSON / Python value is a record [kind, num, str] (kinds "str", "num", *)
(* "null", and "ts" for the ISO-8601 text of a clock reading, whose text   *)
(* order is the order of the instants).  A dict is a function whose domain *)
(* is the set of its keys.  The text of a request body is represented by   *)
(* what json.loads makes of it: malformed, or the decoded value.           *)
(***************************************************************************)
EXTENDS Integers, Sequences, FiniteSets, TLC

VARIABLES table, clock, known, fresh, pc, loc, last, validation, walk

vars == <<table, clock, known, fresh, pc, loc, last, validation, walk>>

(***************************************************************************)
(* Bounds of the model.                                                    *)
(***************************************************************************)
NumProcs == 2
NumUuids == 1
MaxClock == 2
AgeSlack == 2
NumListed == 4

Procs == 1..NumProcs

(***************************************************************************)
(* Python values.                                                          *)
(***************************************************************************)
Str(s) == [kind |-> "str", num |-> 0, str |-> s]
Num(n) == [kind |-> "num", num |-> n, str |-> <<>>]
Ts(t) == [kind |-> "ts", num |-> t, str |-> <<>>]
None == [kind |-> "null", num |-> 0, str |-> <<>>]

EmptyDict == [k \in {} |-> None]

\* d.get(key, default)
DictGet(d, key, default) == IF key \in DOMAIN d THEN d[key] ELSE default

\* d with d[key] = value
DictSet(d, key, value) ==
    [k \in DOMAIN d \cup {key} |-> IF k = key THEN value ELSE d[k]]

\* bool(v)
Truthy(v) ==
    CASE v.kind = "null" -> FALSE
      [] v.kind = "str" -> v.str # <<>>
      [] v.kind = "num" -> v.num # 0
      [] OTHER -> TRUE

\* c in s
Contains(s, c) == \E i \in 1..Len(s) : s[i] = c

\* s.replace(c, '')
RECURSIVE Remove(_, _)
Remove(s, c) ==
    IF s = <<>> THEN <<>>
    ELSE IF Head(s) = c THEN Remove(Tail(s), c)
    ELSE <<Head(s)>> \o Remove(Tail(s), c)

Digits == <<"0", "1", "2", "3", "4", "5", "6", "7", "8", "9">>

IsDigitChar(c) == \E i \in 1..Len(Digits) : Digits[i] = c

DigitVal(c) == (CHOOSE i \in 1..Len(Digits) : Digits[i] = c) - 1

\* s.isdigit(): non-empty and every character a digit
IsDigit(s) == s # <<>> /\ \A i \in 1..Len(s) : IsDigitChar(s[i])

\* s.strip(), over the blank
RECURSIVE Strip(_)
Strip(s) ==
    IF s = <<>> THEN s
    ELSE IF Head(s) = " " THEN Strip(Tail(s))
    ELSE IF s[Len(s)] = " " THEN Strip(SubSeq(s, 1, Len(s) - 1))
    ELSE s

RECURSIVE DigitsValue(_)
DigitsValue(s) ==
    IF s = <<>> THEN 0
    ELSE 10 * DigitsValue(SubSeq(s, 1, Len(s) - 1)) + DigitVal(s[Len(s)])

\* int(s) of a str: blanks stripped, an optional sign, then decimal digits;
\* anything else raises ValueError.
IntOfStr(s) ==
    LET t == Strip(s)
        signed == t # <<>> /\ Head(t) \in {"-", "+"}
        body == IF signed THEN Tail(t) ELSE t
    IN  IF IsDigit(body)
        THEN [raised |-> "none",
              value |-> IF signed /\ Head(t) = "-"
                        THEN 0 - DigitsValue(body) ELSE DigitsValue(body)]
        ELSE [raised |-> "ValueError", value |-> 0]

\* int(v): a number is itself, a str is parsed, None raises TypeError
PyInt(v) ==
    CASE v.kind = "num" -> [raised |-> "none", value |-> v.num]
      [] v.kind = "str" -> IntOfStr(v.str)
      [] OTHER -> [raised |-> "TypeError", value |-> 0]

RECURSIVE NatDigits(_)
NatDigits(n) ==
    IF n < 10 THEN <<Digits[n + 1]>>
    ELSE NatDigits(n \div 10) \o <<Digits[(n % 10) + 1]>>

\* str(v)
PyStr(v) ==
    CASE v.kind = "str" -> v.str
      [] v.kind = "num" ->
           IF v.num < 0 THEN <<"-">> \o NatDigits(0 - v.num) ELSE NatDigits(v.num)
      [] OTHER -> <<"N", "o", "n", "e">>

\* sep.join(parts)
RECURSIVE Join(_, _)
Join(parts, sep) ==
    IF parts = <<>> THEN ""
    ELSE IF Len(parts) = 1 THEN parts[1]
    ELSE parts[1] \o sep \o Join(Tail(parts), sep)

(***************************************************************************)
(* validate_user_data.  The argument is the decoded request body: a record *)
(* [kind, obj], kind "object" with obj the dict, or kind "array" (a JSON   *)
(* document that is no object and has no .get).                            *)
(***************************************************************************)
AgeMin == 0
AgeMax == 150
MinPhoneDigits == 10

Object(d) == [kind |-> "object", obj |-> d]
Array == [kind |-> "array", obj |-> EmptyDict]

NameErrors(d) ==
    IF ~Truthy(DictGet(d, "name", None)) THEN <<"Name is required">> ELSE <<>>

EmailErrors(d) ==
    LET email == DictGet(d, "email", None)
    IN  IF ~Truthy(email) THEN <<"Email is required">>
        ELSE IF ~Contains(email.str, "@") THEN <<"Email must be valid">>
        ELSE <<>>

AgeErrors(d) ==
    IF "age" \in DOMAIN d
    THEN LET age == PyInt(d["age"])
         IN  IF age.raised # "none" THEN <<"Age must be a number">>
             ELSE IF age.value < AgeMin \/ age.value > AgeMax
                  THEN <<"Age must be between 0 and 150">>
             ELSE <<>>
    ELSE <<>>

PhoneErrors(d) ==
    IF "phone" \in DOMAIN d /\ Truthy(d["phone"])
    THEN LET phone == Remove(Remove(PyStr(d["phone"]), "-"), " ")
         IN  IF ~IsDigit(phone) \/ Len(phone) < MinPhoneDigits
             THEN <<"Phone number must be valid">>
             ELSE <<>>
    ELSE <<>>

\* validate_user_data that returns at the first rule violated
\* (a slip: the rules are not evaluated independently)
validate_user_data_first_error(user_data) ==
    IF user_data.kind # "object"
    THEN [raised |-> "AttributeError", errors |-> <<>>]
    ELSE LET d == user_data.obj
             email == DictGet(d, "email", None)
             all == NameErrors(d) \o EmailErrors(d) \o AgeErrors(d) \o PhoneErrors(d)
         IN  IF Truthy(email) /\ email.kind # "str"
             THEN [raised |-> "TypeError", errors |-> <<>>]
             ELSE [raised |-> "none",
                   errors |-> IF all = <<>> THEN all ELSE <<Head(all)>>]

\* [raised, errors]: the list of errors, or the exception that escapes
validate_user_data(user_data) ==
    IF user_data.kind # "object"
    THEN [raised |-> "AttributeError", errors |-> <<>>]
    ELSE LET d == user_data.obj
             email == DictGet(d, "email", None)
         IN  IF Truthy(email) /\ email.kind # "str"
             THEN [raised |-> "TypeError", errors |-> <<>>]
             ELSE [raised |-> "none",
                   errors |-> NameErrors(d) \o EmailErrors(d)
                              \o AgeErrors(d) \o PhoneErrors(d)]

(***************************************************************************)
(* The response formatter.  now is the clock reading taken by the call.    *)
(***************************************************************************)
CorsHeaders ==
    [ContentType |-> "application/json",
     AccessControlAllowOrigin |-> "*",
     AccessControlAllowHeaders |->
         "Content-Type,X-Amz-Date,Authorization,X-Api-Key,X-Amz-Security-Token",
     AccessControlAllowMethods |-> "GET,POST,PUT,DELETE,OPTIONS"]

format_response(status_code, body) ==
    [statusCode |-> status_code, headers |-> CorsHeaders, body |-> body]

format_error_response(status_code, message, now) ==
    format_response(status_code, [error |-> message, timestamp |-> Ts(now)])

format_success_response(data, now) ==
    format_response(200, [data |-> data, timestamp |-> Ts(now)])

(***************************************************************************)
(* The table: a dict from user_id to item.  These are the operations of    *)
(* the DynamoDB resource the adapter calls.                                *)
(***************************************************************************)
\* table.put_item(Item=item): writes unconditionally
put_item(t, item) ==
    [k \in DOMAIN t \cup {item["user_id"].str} |->
        IF k = item["user_id"].str THEN item ELSE t[k]]

\* table.update_item(Key, "SET a = :a, ...", ReturnValues='ALL_NEW') with no
\* ConditionExpression: sets the attributes on the item under the key, and
\* where there is no such item makes one of the key and the attributes set.
update_item(t, key, sets) ==
    LET old == IF key \in DOMAIN t THEN t[key]
               ELSE [a \in {"user_id"} |-> Str(key)]
        new == [a \in DOMAIN old \cup DOMAIN sets |->
                   IF a \in DOMAIN sets THEN sets[a] ELSE old[a]]
    IN  [k \in DOMAIN t \cup {key} |-> IF k = key THEN new ELSE t[k]]

\* table.delete_item(Key)
delete_item(t, key) == [k \in DOMAIN t \ {key} |-> t[k]]

(***************************************************************************)
(* The adapter (dynamodb.py).                                              *)
(***************************************************************************)
Optional == {"age", "phone", "address"}
Whitelist == {"name", "email", "age", "phone", "address"}

\* create_user, the item it prepares
CreateItem(user_id, user_data, created_at, updated_at) ==
    [a \in {"user_id", "name", "email", "created_at", "updated_at"}
           \cup (Optional \cap DOMAIN user_data) |->
        CASE a = "user_id" -> Str(user_id)
          [] a = "name" -> DictGet(user_data, "name", None)
          [] a = "email" -> DictGet(user_data, "email", None)
          [] a = "created_at" -> Ts(created_at)
          [] a = "updated_at" -> Ts(updated_at)
          [] OTHER -> user_data[a]]

\* update_user, the attributes its update expression sets
\* (a slip: every key of the payload is set)
UpdateValuesAnyKey(update_data, now) ==
    [a \in {"updated_at"} \cup DOMAIN update_data |->
        IF a = "updated_at" THEN Ts(now) ELSE update_data[a]]

UpdateValues(update_data, now) ==
    [a \in {"updated_at"} \cup (DOMAIN update_data \cap Whitelist) |->
        IF a = "updated_at" THEN Ts(now) ELSE update_data[a]]

(***************************************************************************)
(* Keys.  uuid4 yields an id no client has seen; a client addresses an id  *)
(* a Create has returned to it, or one that uuid4 never yields (Bogus).    *)
(* A scan walks the keys in the table's own fixed order (the hash order of *)
(* the partition key), here the order of KeyRank.                          *)
(***************************************************************************)
Uuid(i) == <<"u", Digits[i + 1]>>
Uuids == {Uuid(i) : i \in 1..NumUuids}
Bogus == <<"x">>
Ids == Uuids \cup {Bogus}

KeyRank(k) ==
    IF k = Bogus THEN 3
    ELSE 2 * (CHOOSE i \in 1..(Len(Digits) - 1) : Uuid(i) = k)

RECURSIVE SortedKeys(_)
SortedKeys(S) ==
    IF S = {} THEN <<>>
    ELSE LET m == CHOOSE k \in S : \A j \in S : KeyRank(k) <= KeyRank(j)
         IN  <<m>> \o SortedKeys(S \ {m})

\* table.scan(Limit=limit[, ExclusiveStartKey={'user_id': start}]): at most
\* limit items after the start key; LastEvaluatedKey is in the response when
\* the scan stopped at the limit.
scan(t, limit, start) ==
    LET after == {k \in DOMAIN t : ~Truthy(start) \/ KeyRank(k) > KeyRank(start.str)}
        keys == SortedKeys(after)
        n == IF Len(keys) < limit THEN Len(keys) ELSE limit
    IN  [Items |-> [i \in 1..n |-> t[keys[i]]],
         HasLastEvaluatedKey |-> Len(keys) >= limit,
         LastEvaluatedKey |-> IF Len(keys) >= limit THEN Str(keys[n]) ELSE None]

\* What a call of the table can raise (botocore's ClientError family).
Faults == {"ResourceNotFoundException", "ProvisionedThroughputExceededException"}
Outcomes == {"ok"} \cup Faults

(***************************************************************************)
(* Requests: the API Gateway event, a dict with the optional keys body,    *)
(* pathParameters and queryStringParameters.                               *)
(***************************************************************************)
BodyNull == [kind |-> "null", doc |-> Array]
BodyMalformed == [kind |-> "malformed", doc |-> Array]
BodyJson(doc) == [kind |-> "json", doc |-> doc]

\* json.loads(event['body'])
json_loads(body) ==
    CASE body.kind = "null" -> [raised |-> "TypeError", value |-> Array]
      [] body.kind = "malformed" -> [raised |-> "JSONDecodeError", value |-> Array]
      [] OTHER -> [raised |-> "none", value |-> body.doc]

ParamsNull == [kind |-> "null", map |-> EmptyDict]
ParamsMap(m) == [kind |-> "map", map |-> m]

\* event.get(key, {}) followed by .get(name): None.get raises AttributeError
EventParam(event, key, name) ==
    IF key \notin DOMAIN event
    THEN [raised |-> "none", value |-> None]
    ELSE IF event[key].kind = "null"
    THEN [raised |-> "AttributeError", value |-> None]
    ELSE [raised |-> "none", value |-> DictGet(event[key].map, name, None)]

\* (event.get(key, {}) or {}).get(name, default)
EventParamOr(event, key, name, default) ==
    IF key \notin DOMAIN event \/ event[key].kind = "null"
    THEN default
    ELSE DictGet(event[key].map, name, default)

(***************************************************************************)
(* What a handler does before it reaches the table.  The result says       *)
(* whether the handler goes on, and if not the response it returns; calls  *)
(* lists the functions of dynamodb.py invoked and raised names the         *)
(* exception that reached the handler's except clause ("none" if none).    *)
(***************************************************************************)
Stop(resp, calls, raised) ==
    [proceed |-> FALSE, resp |-> resp, calls |-> calls, raised |-> raised,
     user_id |-> <<>>, data |-> EmptyDict]

Proceed(user_id, data, calls) ==
    [proceed |-> TRUE, resp |-> format_response(0, EmptyDict), calls |-> calls,
     raised |-> "none", user_id |-> user_id, data |-> data]

InternalError(now) == format_error_response(500, "Internal server error", now)

\* (a slip: the list of validation errors is not looked at)
ParseAndValidateUnchecked(event, user_id, now) ==
    IF "body" \notin DOMAIN event
    THEN Stop(format_error_response(400, "Request body is required", now), <<>>, "none")
    ELSE LET decoded == json_loads(event["body"])
         IN  IF decoded.raised = "JSONDecodeError"
             THEN Stop(format_error_response(400, "Invalid JSON in request body", now),
                       <<>>, "none")
             ELSE IF decoded.raised # "none"
             THEN Stop(InternalError(now), <<>>, decoded.raised)
             ELSE LET v == validate_user_data(decoded.value)
                  IN  IF v.raised # "none"
                      THEN Stop(InternalError(now), <<"validate_user_data">>, v.raised)
                      ELSE Proceed(user_id, decoded.value.obj, <<"validate_user_data">>)

\* The body is required, decoded and validated: the same text in the create
\* and the update handler.
ParseAndValidate(event, user_id, now) ==
    IF "body" \notin DOMAIN event
    THEN Stop(format_error_response(400, "Request body is required", now), <<>>, "none")
    ELSE LET decoded == json_loads(event["body"])
         IN  IF decoded.raised = "JSONDecodeError"
             THEN Stop(format_error_response(400, "Invalid JSON in request body", now),
                       <<>>, "none")
             ELSE IF decoded.raised # "none"
             THEN Stop(InternalError(now), <<>>, decoded.raised)
             ELSE LET v == validate_user_data(decoded.value)
                  IN  IF v.raised # "none"
                      THEN Stop(InternalError(now), <<"validate_user_data">>, v.raised)
                      ELSE IF v.errors # <<>>
                      THEN Stop(format_error_response(400,
                                    "Validation errors: " \o Join(v.errors, ", "), now),
                                <<"validate_user_data">>, "none")
                      ELSE Proceed(user_id, decoded.value.obj, <<"validate_user_data">>)

\* The user_id path parameter is required (get and update handlers).
RequireUserId(event, now) ==
    LET param == EventParam(event, "pathParameters", "user_id")
    IN  IF param.raised # "none"
        THEN Stop(InternalError(now), <<>>, param.raised)
        ELSE IF ~Truthy(param.value)
        THEN Stop(format_error_response(400, "User ID is required", now), <<>>, "none")
        ELSE Proceed(param.value.str, EmptyDict, <<>>)

CreatePrecheck(event, now) == ParseAndValidate(event, <<>>, now)

UpdatePrecheck(event, now) ==
    LET id == RequireUserId(event, now)
    IN  IF ~id.proceed THEN id ELSE ParseAndValidate(event, id.user_id, now)

DefaultLimit == 100
MaxLimit == 1000
MinLimit == 1

\* (a slip: no lower limit)
ClampLimitAbove(limit) == IF limit > MaxLimit THEN MaxLimit ELSE limit

\* list handler: the limit it passes on
ClampLimit(limit) ==
    IF limit > MaxLimit THEN MaxLimit
    ELSE IF limit < MinLimit THEN MinLimit
    ELSE limit

\* list handler: int(query_parameters.get('limit', 100))
RequestedLimit(event) ==
    PyInt(EventParamOr(event, "queryStringParameters", "limit", Num(DefaultLimit)))

(***************************************************************************)
(* State.  table is the DynamoDB table and clock the UTC clock.  Each      *)
(* process is one concurrent Lambda invocation: pc is its position and loc *)
(* its local variables.  last records the invocation that has returned and  *)
(* whose response the gateway has yet to send, if there is one: the event, *)
(* the response, the functions it called, the         *)
(* exception the table raised (fault), the exception that reached the      *)
(* handler's except clause (raised) and the arguments it gave to           *)
(* list_users.  known is                                                   *)
(* the set of ids Create has returned, and fresh maps a key to the data    *)
(* submitted to the Create that wrote it, for as long as nothing else has  *)
(* written or deleted that key.                                            *)
(***************************************************************************)
IdleLoc ==
    [req |-> EmptyDict, user_id |-> <<>>, data |-> EmptyDict,
     created_at |-> 0, updated_at |-> 0]

NoArgs == [limit |-> 0, last_evaluated_key |-> None]

Returned(handler, req, resp, calls, fault, raised, args) ==
    [handler |-> handler, req |-> req, resp |-> resp, calls |-> calls,
     fault |-> fault, raised |-> raised, args |-> args]

FaultOf(outcome) == IF outcome = "ok" THEN "none" ELSE outcome

\* No invocation returned
NoReturn ==
    Returned("none", EmptyDict, format_response(0, EmptyDict), <<>>, "none", "none",
             NoArgs)

\* No call of validate_user_data on its own: validation holds the argument
\* of such a call, the dict after the call and what the call returned.
NoValidation ==
    [called |-> FALSE, user_data |-> Array, after |-> Array,
     result |-> [raised |-> "none", errors |-> <<>>]]

\* No client walking the pages of List: walk holds the limit such a client
\* asks for, the cursor it sends next, the number of List calls it made,
\* the pages it got (each the sequence of the user_ids of its users), the
\* count the last page reported and whether a page came without next_token.
NoWalk ==
    [limit |-> None, cursor |-> None, calls |-> 0, pages |-> <<>>,
     count |-> 0, done |-> FALSE]

Init ==
    /\ table = [k \in {} |-> EmptyDict]
    /\ clock = 0
    /\ known = {}
    /\ fresh = [k \in {} |-> EmptyDict]
    /\ pc = [p \in Procs |-> "idle"]
    /\ loc = [p \in Procs |-> IdleLoc]
    /\ last = NoReturn
    /\ validation = NoValidation
    /\ walk = NoWalk

\* datetime.utcnow() moves on
Tick ==
    /\ last = NoReturn
    /\ clock < MaxClock
    /\ clock' = clock + 1
    /\ last' = NoReturn
    /\ UNCHANGED <<table, known, fresh, pc, loc, validation, walk>>

InFlightIds == {loc[q].user_id : q \in {q \in Procs : pc[q] \in {"c_stamp", "c_put"}}}

\* create handler up to create_user's first reading of the clock: the body
\* is checked, uuid4 is drawn and created_at is read.
CreateBegin(p, event) ==
    /\ last = NoReturn
    /\ pc[p] = "idle"
    /\ LET r == CreatePrecheck(event, clock)
       IN  IF ~r.proceed
           THEN /\ last' = Returned("create", event, r.resp, r.calls, "none", r.raised, NoArgs)
                /\ UNCHANGED <<table, clock, known, fresh, pc, loc, validation, walk>>
           ELSE \E k \in Uuids \ (known \cup InFlightIds) :
                /\ pc' = [pc EXCEPT ![p] = "c_stamp"]
                /\ loc' = [loc EXCEPT ![p] =
                              [req |-> event, user_id |-> k, data |-> r.data,
                               created_at |-> clock, updated_at |-> 0]]
                /\ last' = NoReturn
                /\ UNCHANGED <<table, clock, known, fresh, validation, walk>>

\* create_user reads the clock again, for updated_at
CreateStamp(p) ==
    /\ last = NoReturn
    /\ pc[p] = "c_stamp"
    /\ pc' = [pc EXCEPT ![p] = "c_put"]
    /\ loc' = [loc EXCEPT ![p].updated_at = clock]
    /\ last' = NoReturn
    /\ UNCHANGED <<table, clock, known, fresh, validation, walk>>

CreateCalls == <<"validate_user_data", "create_user", "put_item">>

\* create_user puts the item; the handler returns
CreatePut(p, outcome) ==
    /\ last = NoReturn
    /\ pc[p] = "c_put"
    /\ LET l == loc[p]
           item == CreateItem(l.user_id, l.data, l.created_at, l.updated_at)
       IN  IF outcome = "ok"
           THEN /\ table' = put_item(table, item)
                /\ known' = known \cup {l.user_id}
                /\ fresh' = DictSet(fresh, l.user_id, l.data)
                /\ last' = Returned("create", l.req,
                               format_success_response(
                                   [message |-> "User created successfully",
                                    user |-> item], clock),
                               CreateCalls, "none", "none", NoArgs)
           ELSE /\ last' = Returned("create", l.req, InternalError(clock),
                                    CreateCalls, outcome, outcome, NoArgs)
                /\ UNCHANGED <<table, known, fresh>>
    /\ pc' = [pc EXCEPT ![p] = "idle"]
    /\ loc' = [loc EXCEPT ![p] = IdleLoc]
    /\ UNCHANGED <<clock, validation, walk>>

\* update handler up to update_user's reading of the clock
UpdateBegin(p, event) ==
    /\ last = NoReturn
    /\ pc[p] = "idle"
    /\ LET r == UpdatePrecheck(event, clock)
       IN  IF ~r.proceed
           THEN /\ last' = Returned("update", event, r.resp, r.calls, "none", r.raised, NoArgs)
                /\ UNCHANGED <<table, clock, known, fresh, pc, loc, validation, walk>>
           ELSE /\ pc' = [pc EXCEPT ![p] = "u_write"]
                /\ loc' = [loc EXCEPT ![p] =
                              [req |-> event, user_id |-> r.user_id, data |-> r.data,
                               created_at |-> 0, updated_at |-> clock]]
                /\ last' = NoReturn
                /\ UNCHANGED <<table, clock, known, fresh, validation, walk>>

UpdateCalls == <<"validate_user_data", "update_user", "update_item">>

\* update_user's result: the Attributes of the response, None for
\* ResourceNotFoundException, any other exception raised again
UpdateResult(t, key, outcome) ==
    CASE outcome = "ok" -> [raised |-> "none", found |-> TRUE, user |-> t[key]]
      [] outcome = "ResourceNotFoundException" ->
           [raised |-> "none", found |-> FALSE, user |-> EmptyDict]
      [] OTHER -> [raised |-> outcome, found |-> FALSE, user |-> EmptyDict]

\* update_user updates the item; the handler returns
UpdateWrite(p, outcome) ==
    /\ last = NoReturn
    /\ pc[p] = "u_write"
    /\ LET l == loc[p]
           after == IF outcome = "ok"
                    THEN update_item(table, l.user_id, UpdateValues(l.data, l.updated_at))
                    ELSE table
           res == UpdateResult(after, l.user_id, outcome)
       IN  /\ table' = after
           /\ fresh' = IF outcome = "ok"
                       THEN [k \in DOMAIN fresh \ {l.user_id} |-> fresh[k]]
                       ELSE fresh
           /\ last' = Returned("update", l.req,
                          IF res.raised # "none" THEN InternalError(clock)
                          ELSE IF res.found /\ res.user # EmptyDict
                          THEN format_success_response(
                                   [message |-> "User updated successfully",
                                    user |-> res.user], clock)
                          ELSE format_error_response(404, "User not found", clock),
                          UpdateCalls, FaultOf(outcome), res.raised, NoArgs)
    /\ pc' = [pc EXCEPT ![p] = "idle"]
    /\ loc' = [loc EXCEPT ![p] = IdleLoc]
    /\ UNCHANGED <<clock, known, validation, walk>>

GetCalls == <<"get_user", "get_item">>

\* get handler
GetUser(p, event, outcome) ==
    /\ last = NoReturn
    /\ pc[p] = "idle"
    /\ LET r == RequireUserId(event, clock)
       IN  last' =
             IF ~r.proceed
             THEN Returned("get", event, r.resp, r.calls, "none", r.raised, NoArgs)
             ELSE IF outcome # "ok"
             THEN Returned("get", event, InternalError(clock), GetCalls,
                           outcome, outcome, NoArgs)
             ELSE IF r.user_id \in DOMAIN table /\ table[r.user_id] # EmptyDict
             THEN Returned("get", event,
                           format_success_response([user |-> table[r.user_id]], clock),
                           GetCalls, "none", "none", NoArgs)
             ELSE Returned("get", event,
                           format_error_response(404, "User not found", clock),
                           GetCalls, "none", "none", NoArgs)
    /\ UNCHANGED <<table, clock, known, fresh, pc, loc, validation, walk>>

ListCalls == <<"list_users", "scan">>

\* list_users that never sets ExclusiveStartKey
\* (a slip: the pagination token is dropped)
list_users_from_start(t, limit, last_evaluated_key) ==
    LET response == scan(t, limit, None)
    IN  [users |-> response.Items,
         count |-> Len(response.Items),
         next_token |-> response.LastEvaluatedKey]

\* list_users, where the table raises nothing: one scan from the start key,
\* if there is one, and next_token the user_id of LastEvaluatedKey or None
list_users(t, limit, last_evaluated_key) ==
    LET response == scan(t, limit, last_evaluated_key)
    IN  [users |-> response.Items,
         count |-> Len(response.Items),
         next_token |-> response.LastEvaluatedKey]

\* list handler: what it returns
ListReturn(t, event, outcome, now) ==
    LET requested == RequestedLimit(event)
        limit == ClampLimit(requested.value)
        last_evaluated_key ==
            EventParamOr(event, "queryStringParameters", "last_evaluated_key", None)
        args == [limit |-> limit, last_evaluated_key |-> last_evaluated_key]
    IN  IF requested.raised # "none"
        THEN Returned("list", event, InternalError(now), <<>>,
                      "none", requested.raised, NoArgs)
        ELSE IF outcome # "ok"
        THEN Returned("list", event, InternalError(now), ListCalls,
                      outcome, outcome, args)
        ELSE Returned("list", event,
                      format_success_response(
                          list_users(t, limit, last_evaluated_key), now),
                      ListCalls, "none", "none", args)

\* list handler
ListUsers(p, event, outcome) ==
    /\ last = NoReturn
    /\ pc[p] = "idle"
    /\ last' = ListReturn(table, event, outcome, clock)
    /\ UNCHANGED <<table, clock, known, fresh, pc, loc, validation, walk>>

\* delete_user: the adapter's operation, which no handler calls.  Where the
\* key is absent or the table raises, nothing changes.
DeleteUser(key) ==
    /\ last = NoReturn
    /\ key \in DOMAIN table
    /\ table' = delete_item(table, key)
    /\ fresh' = [k \in DOMAIN fresh \ {key} |-> fresh[k]]
    /\ last' = NoReturn
    /\ UNCHANGED <<clock, known, pc, loc, validation, walk>>

\* The gateway sends the response of the invocation that returned.  It does so
\* in the step after the return: no step of the service reads last, so this
\* order leaves out no behaviour of the table, the clock or the invocations.
Respond ==
    /\ last # NoReturn
    /\ last' = NoReturn
    /\ UNCHANGED <<table, clock, known, fresh, pc, loc, validation, walk>>

(***************************************************************************)
(* The requests the clients send.                                          *)
(***************************************************************************)
NameA == <<"A", "l">>
NameB == <<"B", "o">>
EmailA == <<"a", "@", "b">>
EmailNoAt == <<"a", "b">>
PhoneA == <<"1", "2", "3", "-", "4", "5", "6", "-", "7", "8", "9", "0">>
PhoneShort == <<"1", "2", "3">>
AddressA == <<"M", "a", "i", "n">>

Dict(keys, d) == [k \in keys |-> d[k]]

AllFields ==
    [name |-> Str(NameA), email |-> Str(EmailA), age |-> Num(30),
     phone |-> Str(PhoneA), address |-> Str(AddressA),
     user_id |-> Str(Bogus), created_at |-> Ts(0), role |-> Str(NameB)]

\* Records that pass validation
PFull == Dict({"name", "email", "age", "phone", "address"}, AllFields)

\* A record with keys that are not fields of a user
PExtra ==
    Dict({"name", "email", "address", "user_id", "created_at", "role"},
         [AllFields EXCEPT !["name"] = Str(NameB), !["address"] = Str(NameA)])

ValidPayloads == {PFull, PExtra}

\* Records that do not, and one whose email is a number
InvalidPayloads ==
    {Dict({"age"}, AllFields),
     Dict({"name", "email", "age", "phone"},
          [AllFields EXCEPT !["name"] = Str(<<>>), !["email"] = Str(EmailNoAt),
                            !["age"] = Num(151), !["phone"] = Str(PhoneShort)]),
     Dict({"name", "email", "age"}, [AllFields EXCEPT !["age"] = Str(NameA)]),
     Dict({"name", "email"}, [AllFields EXCEPT !["email"] = Num(5)])}

Bodies(valid) ==
    {BodyNull, BodyMalformed, BodyJson(Array)}
    \cup {BodyJson(Object(d)) : d \in valid \cup InvalidPayloads}

WithBody(valid) == {[k \in {"body"} |-> b] : b \in Bodies(valid)}

PathParams(ids) ==
    {ParamsNull, ParamsMap(EmptyDict), ParamsMap([k \in {"user_id"} |-> Str(<<>>)])}
    \cup {ParamsMap([k \in {"user_id"} |-> Str(id)]) : id \in ids}

WithPath(ids) == {[k \in {"pathParameters"} |-> pp] : pp \in PathParams(ids)}

CreateEvents == {EmptyDict} \cup WithBody({PFull})

GetEvents(ids) == {EmptyDict} \cup WithPath(ids)

UpdateEvents(ids) ==
    {a @@ b : a \in {EmptyDict} \cup WithPath(ids), b \in {EmptyDict} \cup WithBody({PExtra})}

Limits ==
    {<<"5", "0", "0", "0">>, <<"1", "0", "0", "1">>, <<"1", "0", "0", "0">>,
     <<"2">>, <<"1">>, <<"0">>, <<"-", "5">>, <<"a", "b", "c">>}

QueryParams(ids) ==
    {ParamsNull, ParamsMap(EmptyDict)}
    \cup {ParamsMap([k \in {"limit"} |-> Str(l)]) : l \in Limits}
    \cup {ParamsMap([k \in {"last_evaluated_key"} |-> Str(c)]) : c \in ids \cup {<<>>}}
    \cup {ParamsMap([limit |-> Str(l), last_evaluated_key |-> Str(c)]) :
             l \in {<<"1">>, <<"2">>}, c \in ids}

ListEvents(ids) ==
    {EmptyDict} \cup {[k \in {"queryStringParameters"} |-> q] : q \in QueryParams(ids)}

\* The ids a client can address
Addressable == known \cup {Bogus}

ValidBodies == {[k \in {"body"} |-> BodyJson(Object(d))] : d \in ValidPayloads}

WithId(ids) == {[k \in {"pathParameters"} |-> ParamsMap([j \in {"user_id"} |-> Str(id)])] :
                   id \in ids}

\* Well-formed requests: the table is reached
StoreCreates == ValidBodies
StoreUpdates(ids) == {a @@ b : a \in WithId(ids), b \in ValidBodies}
StoreGets(ids) == WithId(ids)
StoreLists(ids) ==
    {EmptyDict}
    \cup {[k \in {"queryStringParameters"} |->
              ParamsMap(Dict(keys, [limit |-> Str(<<"1">>), last_evaluated_key |-> Str(c)]))] :
             keys \in {{"limit"}, {"limit", "last_evaluated_key"}}, c \in ids}

\* Concurrent invocations of well-formed requests
Next ==
    \/ Tick
    \/ Respond
    \/ \E p \in Procs :
         \/ \E event \in StoreCreates : CreateBegin(p, event)
         \/ CreateStamp(p)
         \/ \E outcome \in Outcomes : CreatePut(p, outcome)
         \/ \E event \in StoreUpdates(Addressable) : UpdateBegin(p, event)
         \/ \E outcome \in Outcomes : UpdateWrite(p, outcome)
         \/ \E event \in StoreGets(Addressable), outcome \in Outcomes :
                GetUser(p, event, outcome)
         \/ \E event \in StoreLists(Addressable), outcome \in Outcomes :
                ListUsers(p, event, outcome)
    \/ \E key \in Ids : DeleteUser(key)

Spec == Init /\ [][Next]_vars

\* One invocation at a time, of every shape of request
NextReq ==
    \/ Tick
    \/ Respond
    \/ \E event \in CreateEvents : CreateBegin(1, event)
    \/ CreateStamp(1)
    \/ \E outcome \in Outcomes : CreatePut(1, outcome)
    \/ \E event \in UpdateEvents(Addressable) : UpdateBegin(1, event)
    \/ \E outcome \in Outcomes : UpdateWrite(1, outcome)
    \/ \E event \in GetEvents(Addressable), outcome \in Outcomes :
           GetUser(1, event, outcome)
    \/ \E event \in ListEvents(Addressable), outcome \in Outcomes :
           ListUsers(1, event, outcome)
    \/ \E key \in Ids : DeleteUser(key)

SpecReq == Init /\ [][NextReq]_vars

(***************************************************************************)
(* validate_user_data called on its own.  The dicts it is given hold any   *)
(* combination of the four fields it reads, each absent or one of the      *)
(* values below: a str or null for name, email and phone, and for age an   *)
(* integer around the bounds, a str (of digits or not) or null.            *)
(***************************************************************************)
Absent == [kind |-> "absent", num |-> 0, str |-> <<>>]

Names == {Absent, None, Str(<<>>), Str(NameA)}
Emails == {Absent, None, Str(<<>>), Str(EmailNoAt), Str(EmailA)}
Ages ==
    {Absent, None, Str(<<>>), Str(NameA), Str(<<"3", "0">>), Str(<<"2", "0", "0">>)}
    \cup {Num(n) : n \in (AgeMin - AgeSlack)..(AgeMax + AgeSlack)}
Phones ==
    {Absent, None, Str(<<>>), Str(PhoneA), Str(PhoneShort),
     Str(<<"1", "2", "3", "4", "5", " ", "6", "7", "8", "9", "0">>),
     Str(<<"1", "2", "3", "4", "5", "6", "7", "8", "9", "a">>),
     Str(<<"-", " ">>)}

\* The dict with the fields that are given
Given(f) == [k \in {k \in DOMAIN f : f[k] # Absent} |-> f[k]]

UserData ==
    {Given([name |-> n, email |-> e, age |-> a, phone |-> ph]) :
        n \in Names, e \in Emails, a \in Ages, ph \in Phones}

InitVal ==
    /\ table = [k \in {} |-> EmptyDict]
    /\ clock = 0
    /\ known = {}
    /\ fresh = [k \in {} |-> EmptyDict]
    /\ pc = [p \in Procs |-> "idle"]
    /\ loc = [p \in Procs |-> IdleLoc]
    /\ last = NoReturn
    /\ walk = NoWalk
    /\ \E d \in UserData :
          validation = [NoValidation EXCEPT !.user_data = Object(d), !.after = Object(d)]

\* validate_user_data(user_data): it reads user_data and assigns to errors only
Validate ==
    /\ ~validation.called
    /\ validation' = [called |-> TRUE,
                      user_data |-> validation.user_data,
                      after |-> validation.user_data,
                      result |-> validate_user_data(validation.user_data)]
    /\ UNCHANGED <<table, clock, known, fresh, pc, loc, last, walk>>

NextVal == Validate

SpecVal == InitVal /\ [][NextVal]_vars

(***************************************************************************)
(* A client that lists a table page by page: it calls List without a       *)
(* cursor, then with the next_token of the page before as                  *)
(* last_evaluated_key, until a page comes without next_token.  Nothing     *)
(* writes the table meanwhile and the table raises nothing.                *)
(***************************************************************************)
Listed == {Uuid(i) : i \in 1..NumListed}

\* The tables of records that Create wrote under some of the keys
ListedTables ==
    {[k \in S |-> CreateItem(k, PFull, 0, 0)] : S \in SUBSET Listed}

\* The texts of limits within the handler's range
PageLimits == {Str(NatDigits(n)) : n \in (MinLimit..NumListed) \cup {MaxLimit}}

InitPage ==
    /\ table \in ListedTables
    /\ clock = 0
    /\ known = {}
    /\ fresh = [k \in {} |-> EmptyDict]
    /\ pc = [p \in Procs |-> "idle"]
    /\ loc = [p \in Procs |-> IdleLoc]
    /\ last = NoReturn
    /\ validation = NoValidation
    /\ \E limit \in PageLimits : walk = [NoWalk EXCEPT !.limit = limit]

\* The event of the client's next call
PageEvent(w) ==
    [k \in {"queryStringParameters"} |->
        ParamsMap(Dict(IF w.calls = 0 THEN {"limit"} ELSE {"limit", "last_evaluated_key"},
                       [limit |-> w.limit, last_evaluated_key |-> w.cursor]))]

\* The user_ids of a page, in its order
PageIds(users) == [i \in 1..Len(users) |-> users[i]["user_id"].str]

\* The client calls List for its next page
ListPage ==
    /\ last = NoReturn
    /\ walk.limit # None
    /\ ~walk.done
    /\ LET r == ListReturn(table, PageEvent(walk), "ok", clock)
           data == r.resp.body.data
       IN  /\ last' = r
           /\ walk' = [limit |-> walk.limit,
                       cursor |-> data.next_token,
                       calls |-> walk.calls + 1,
                       pages |-> Append(walk.pages, PageIds(data.users)),
                       count |-> data.count,
                       done |-> (data.next_token = None)]
    /\ UNCHANGED <<table, clock, known, fresh, pc, loc, validation>>

NextPage ==
    \/ ListPage
    \/ Respond

SpecPage == InitPage /\ [][NextPage]_vars

(***************************************************************************)
(* Properties.                                                             *)
(***************************************************************************)
\* The user_id a request addresses (the empty string if it gives none)
ReqUserId(req) ==
    IF "pathParameters" \in DOMAIN req /\ req["pathParameters"].kind = "map"
       /\ "user_id" \in DOMAIN req["pathParameters"].map
    THEN req["pathParameters"].map["user_id"].str
    ELSE <<>>

Status(r) == r.resp.statusCode

IsError(r, status, message) ==
    /\ r.resp.statusCode = status
    /\ "error" \in DOMAIN r.resp.body
    /\ r.resp.body.error = message

\* Process p's update_user call returns in this step
UpdateReturns(p) == pc[p] = "u_write" /\ pc'[p] = "idle"

UserFields == {"name", "email", "age", "phone", "address"}

\* C1: an Update of a user_id that is not a key of the table, with a payload
\* that passed validation and a table that raises nothing, returns 404 "User
\* not found", and the table has no record under that user_id afterwards.
C1_UpdateOfAbsentKeyIs404 ==
    [][\A p \in Procs :
         (UpdateReturns(p) /\ loc[p].user_id \notin DOMAIN table
          /\ last'.fault = "none")
         => /\ IsError(last', 404, "User not found")
            /\ loc[p].user_id \notin DOMAIN table']_vars

\* C2: a Get of a key that a Create wrote and nothing has written since
\* returns a record equal to the submitted one in name, email, age, phone and
\* address, whose created_at equals its updated_at.
C2_CreateGetRoundTrip ==
    (last.handler = "get" /\ last.fault = "none"
     /\ ReqUserId(last.req) \in DOMAIN fresh)
    => /\ Status(last) = 200
       /\ LET user == last.resp.body.data.user
              submitted == fresh[ReqUserId(last.req)]
          IN  /\ \A f \in UserFields :
                   /\ f \in DOMAIN submitted <=> f \in DOMAIN user
                   /\ f \in DOMAIN submitted => user[f] = submitted[f]
              /\ user["created_at"] = user["updated_at"]

\* C3: every record in the table carries a created_at and an updated_at with
\* created_at <= updated_at.
C3_CreatedNotAfterUpdated ==
    \A k \in DOMAIN table :
        /\ {"created_at", "updated_at"} \subseteq DOMAIN table[k]
        /\ table[k]["created_at"].num <= table[k]["updated_at"].num

\* C4: a successful Update of an existing record leaves the stored updated_at
\* greater than or equal to the value stored just before its write, also when
\* Updates of one user_id run concurrently.  (Stated of the records that a
\* Create wrote, which carry a created_at.)
C4_UpdatedAtNeverDecreases ==
    [][\A p \in Procs :
         (UpdateReturns(p) /\ loc[p].user_id \in DOMAIN table /\ Status(last') = 200
          /\ "created_at" \in DOMAIN table[loc[p].user_id])
         => table'[loc[p].user_id]["updated_at"].num
              >= table[loc[p].user_id]["updated_at"].num]_vars

\* C5: a successful Update of an existing record changes only updated_at and
\* the fields of {name, email, age, phone, address} present in the payload:
\* user_id, created_at and the fields absent from the payload keep their
\* values, the other keys of the payload are not stored, and no other record
\* changes.
C5_UpdateFrame ==
    [][\A p \in Procs :
         (UpdateReturns(p) /\ loc[p].user_id \in DOMAIN table /\ Status(last') = 200)
         => LET key == loc[p].user_id
                old == table[key]
                new == table'[key]
                payload == loc[p].data
                applied == DOMAIN payload \cap UserFields
            IN  /\ DOMAIN new = DOMAIN old \cup applied \cup {"updated_at"}
                /\ \A a \in applied : new[a] = payload[a]
                /\ \A a \in DOMAIN old \ (applied \cup {"updated_at"}) : new[a] = old[a]
                /\ new["user_id"] = Str(key)
                /\ DOMAIN table' = DOMAIN table
                /\ \A k \in DOMAIN table \ {key} : table'[k] = table[k]
                /\ last'.resp.body.data.user = new]_vars

\* An Update has just returned 200 for a record that a Create wrote: the name
\* is the payload's, the age is the created one (the payload has none), and
\* the payload's role is not stored.
C5_Witness ==
    /\ last.handler = "update"
    /\ Status(last) = 200
    /\ LET user == last.resp.body.data.user
           payload == last.req["body"].doc.obj
       IN  /\ "created_at" \in DOMAIN user
           /\ "age" \in DOMAIN user /\ "age" \notin DOMAIN payload
           /\ "role" \in DOMAIN payload /\ "role" \notin DOMAIN user
           /\ user["name"] = payload["name"]
           /\ user["user_id"] # payload["user_id"]

\* The request gives no user_id: no pathParameters, a null one, one without
\* user_id, or an empty user_id
NoUserId(req) ==
    \/ "pathParameters" \notin DOMAIN req
    \/ req["pathParameters"].kind = "null"
    \/ "user_id" \notin DOMAIN req["pathParameters"].map
    \/ req["pathParameters"].map["user_id"].str = <<>>

\* C6: the Get and the Update handler answer a request that gives no user_id
\* with 400 "User ID is required", never with 500, and call nothing.
C6_MissingUserIdIs400 ==
    (last.handler \in {"get", "update"} /\ NoUserId(last.req))
    => /\ IsError(last, 400, "User ID is required")
       /\ last.calls = <<>>

\* The handler reads the body: Create, or Update given a user_id
ReadsBody(r) == r.handler = "create" \/ (r.handler = "update" /\ ~NoUserId(r.req))

\* C7: where the body is missing (no body key, or a null body) the answer is
\* 400 "Request body is required", and where it is not well-formed JSON the
\* answer is 400 "Invalid JSON in request body"; in both cases neither the
\* validator nor the store is invoked.
C7_MissingOrMalformedBodyIs400 ==
    ReadsBody(last)
    => /\ ("body" \notin DOMAIN last.req \/ last.req["body"].kind = "null")
          => (IsError(last, 400, "Request body is required") /\ last.calls = <<>>)
       /\ ("body" \in DOMAIN last.req /\ last.req["body"].kind = "malformed")
          => (IsError(last, 400, "Invalid JSON in request body") /\ last.calls = <<>>)

\* The errors validation finds in the body of a request (none where the
\* body is no JSON object)
BodyErrors(req) ==
    IF "body" \in DOMAIN req /\ req["body"].kind = "json"
       /\ req["body"].doc.kind = "object"
    THEN validate_user_data(req["body"].doc)
    ELSE [raised |-> "none", errors |-> <<>>]

InvalidBody(req) == BodyErrors(req).raised = "none" /\ BodyErrors(req).errors # <<>>

OnlyAge == [k \in {"body"} |-> BodyJson(Object([j \in {"age"} |-> Num(30)]))]

\* C8: in Create and Update, where validation of the decoded body yields
\* errors, the handler returns 400 with "Validation errors: " and the errors
\* joined by ", ", the store is not invoked and the table is unchanged; and
\* the table is written only for a body whose validation yields no error.
C8_ValidationErrorsStopTheHandler ==
    [][/\ (last = NoReturn /\ ReadsBody(last') /\ InvalidBody(last'.req))
          => /\ IsError(last', 400,
                    "Validation errors: " \o Join(BodyErrors(last'.req).errors, ", "))
             /\ last'.calls = <<"validate_user_data">>
             /\ table' = table
             /\ (last'.req = OnlyAge
                 => last'.resp.body.error
                      = "Validation errors: Name is required, Email is required")
       /\ \A p \in Procs :
            (pc[p] \in {"c_put", "u_write"} /\ table' # table)
            => /\ "body" \in DOMAIN loc[p].req
               /\ BodyErrors(loc[p].req) = [raised |-> "none", errors |-> <<>>]]_vars

\* An Update of a record in the table has just been refused for four errors.
C8_Witness ==
    /\ last.handler = "update"
    /\ ReqUserId(last.req) \in DOMAIN table
    /\ IsError(last, 400,
         "Validation errors: Name is required, Email must be valid, Age must be between 0 and 150, Phone number must be valid")
    /\ last.calls = <<"validate_user_data">>

\* C9: whenever the table's call or any other step raises, the handler
\* returns 500 with the error "Internal server error".
C9_EveryFaultIs500 ==
    (last.handler # "none" /\ (last.fault # "none" \/ last.raised # "none"))
    => IsError(last, 500, "Internal server error")

\* The limit parameter of a List request: its text, or <<>> where there is none
LimitText(req) ==
    IF "queryStringParameters" \in DOMAIN req
       /\ req["queryStringParameters"].kind = "map"
       /\ "limit" \in DOMAIN req["queryStringParameters"].map
    THEN req["queryStringParameters"].map["limit"].str
    ELSE <<>>

Min(a, b) == IF a < b THEN a ELSE b
Max(a, b) == IF a > b THEN a ELSE b

\* C10: the limit a List request passes to list_users is in [1, 1000]: it is
\* min(1000, max(1, limit)) for an integer limit parameter (5000 gives 1000,
\* 0 and -5 give 1) and 100 where no limit is given.
C10_LimitIsClamped ==
    (last.handler = "list" /\ last.calls # <<>>)
    => LET text == LimitText(last.req)
           limit == last.args.limit
       IN  /\ limit \in 1..1000
           /\ text = <<>> => limit = 100
           /\ text # <<>> => /\ IntOfStr(text).raised = "none"
                             /\ limit = Min(1000, Max(1, IntOfStr(text).value))
           /\ text = <<"5", "0", "0", "0">> => limit = 1000
           /\ text = <<"1", "0", "0", "1">> => limit = 1000
           /\ text = <<"1", "0", "0", "0">> => limit = 1000
           /\ text = <<"2">> => limit = 2
           /\ text = <<"0">> => limit = 1
           /\ text = <<"-", "5">> => limit = 1

\* A List request with limit=0 has just passed the limit 1 to list_users, and
\* the table holds a record.
C10_Witness ==
    /\ last.handler = "list"
    /\ last.calls = <<"list_users", "scan">>
    /\ LimitText(last.req) = <<"0">>
    /\ last.args.limit = 1
    /\ DOMAIN table # {}

\* The field is missing or empty: absent, null or the empty string
Blank(d, k) == k \notin DOMAIN d \/ d[k] = None \/ d[k] = Str(<<>>)

DecimalDigits == {"0", "1", "2", "3", "4", "5", "6", "7", "8", "9"}

\* s without the hyphens and the spaces
Unseparated(s) == SelectSeq(s, LAMBDA c : c \notin {"-", " "})

AllDecimal(s) == \A i \in 1..Len(s) : s[i] \in DecimalDigits

\* The age is a number: an integer, or the decimal numeral of one
NumericAge(v) == v.kind = "num" \/ (v.kind = "str" /\ v.str # <<>> /\ AllDecimal(v.str))

AgeNumber(v) == IF v.kind = "num" THEN v.num ELSE DigitsValue(v.str)

BadAge(d) ==
    /\ "age" \in DOMAIN d
    /\ \/ ~NumericAge(d["age"])
       \/ AgeNumber(d["age"]) < 0
       \/ AgeNumber(d["age"]) > 150

BadPhone(d) ==
    /\ ~Blank(d, "phone")
    /\ \/ ~AllDecimal(Unseparated(d["phone"].str))
       \/ Len(Unseparated(d["phone"].str)) < 10

AgeMessages == {"Age must be a number", "Age must be between 0 and 150"}

ValidatorMessages ==
    {"Name is required", "Email is required", "Email must be valid",
     "Phone number must be valid"} \cup AgeMessages

\* C11: validate_user_data collects every violated rule independently.  For
\* every record it is called on, it returns a list that holds "Name is
\* required" iff name is missing or empty; "Email is required" iff email is
\* missing or empty and "Email must be valid" iff email is non-empty without
\* "@" (so never both); an age error iff age is present and is non-numeric or
\* outside [0,150]; "Phone number must be valid" iff phone is present,
\* non-empty and, with "-" and " " removed, not all digits or shorter than
\* 10; nothing else and nothing twice, so the list is empty iff none of
\* these holds; and the record is as it was before the call.
C11_ValidateCollectsEveryRule ==
    validation.called =>
        LET d == validation.user_data.obj
            errors == validation.result.errors
            E == {errors[i] : i \in 1..Len(errors)}
        IN  /\ validation.result.raised = "none"
            /\ ("Name is required" \in E) <=> Blank(d, "name")
            /\ ("Email is required" \in E) <=> Blank(d, "email")
            /\ ("Email must be valid" \in E)
                   <=> (~Blank(d, "email") /\ ~Contains(d["email"].str, "@"))
            /\ ~({"Email is required", "Email must be valid"} \subseteq E)
            /\ (E \cap AgeMessages # {}) <=> BadAge(d)
            /\ ("Phone number must be valid" \in E) <=> BadPhone(d)
            /\ E \subseteq ValidatorMessages
            /\ Cardinality(E) = Len(errors)
            /\ (errors = <<>>)
                   <=> ~(Blank(d, "name") \/ Blank(d, "email")
                         \/ ~Contains(d["email"].str, "@") \/ BadAge(d) \/ BadPhone(d))
            /\ validation.after = validation.user_data

\* A call that returned four errors, one for each field
C11_Witness ==
    /\ validation.called
    /\ Len(validation.result.errors) = 4
    /\ BadAge(validation.user_data.obj)
    /\ BadPhone(validation.user_data.obj)

\* The user_ids of all pages, in the order they came
RECURSIVE Flatten(_)
Flatten(pages) == IF pages = <<>> THEN <<>> ELSE Head(pages) \o Flatten(Tail(pages))

WalkLimit == IntOfStr(walk.limit.str).value

\* C12: pagination is complete.  With a fixed table and a limit in
\* [1,1000], a client that calls List without a cursor and then with the
\* next_token of the page before gets every stored record exactly once
\* across the pages; each page reports a count equal to its number of users
\* and at most the limit; and the calls end with a page whose next_token is
\* absent after finitely many of them: as long as no such page has come the
\* client has made no more calls than there are records, so that it is done
\* with one call more at the latest.
C12_PaginationIsComplete ==
    walk.calls > 0 =>
        LET ids == Flatten(walk.pages)
            page == walk.pages[Len(walk.pages)]
            listed == {ids[i] : i \in 1..Len(ids)}
        IN  /\ Status(last) = 200 \/ last = NoReturn
            /\ walk.count = Len(page)
            /\ Len(page) <= WalkLimit
            /\ \A i, j \in 1..Len(ids) : ids[i] = ids[j] => i = j
            /\ listed \subseteq DOMAIN table
            /\ walk.done => listed = DOMAIN table
            /\ ~walk.done => walk.calls <= Cardinality(DOMAIN table)
            /\ walk.calls <= Cardinality(DOMAIN table) + 1

\* The client is done after a page that was full and a page that was not:
\* three records listed with limit 2
C12_Witness ==
    /\ walk.done
    /\ walk.calls = 2
    /\ Len(walk.pages[1]) = 2
    /\ Len(walk.pages[2]) = 1
    /\ Cardinality(DOMAIN table) = 3
====
